---- MODULE Spec2Model ----
(***************************************************************************)
(* Order aggregate of the restaurant backend (app/routes/orders.py):       *)
(* pedidos, pedido_items, pedido_remessas and pedido_categoria_status      *)
(* rows, the status vocabulary, the recompute engine, the finalization     *)
(* guard and the mutation handlers.                                        *)
(*                                                                         *)
(* Conventions                                                             *)
(*   - money is kept in cents (Numeric(12, 2) columns), quantities in      *)
(*     units (Integer column); a quantity supplied by a caller is given    *)
(*     in halves so that 0.5 can be supplied (1 half);                     *)
(*   - a handler is one atomic step: the request runs on one session and   *)
(*     no other request is interleaved with it in Spec;                    *)
(*   - the ORM classes are taken to map every column the handlers use      *)
(*     (numero_diario, data_pedido, remessa tipo).                         *)
(***************************************************************************)
EXTENDS Integers, Sequences, FiniteSets, TLC

(***************************************************************************)
(* Bounds of the model.                                                    *)
(***************************************************************************)
MaxPedidos == 1
MaxItens == 2
MaxRemessas == 2
MaxPayloadItems == 1
MaxEvents == 2
MaxQueues == 1
MaxWebsockets == 2
MaxPedidosShipment == 2
MaxWorkers == 2
MaxPedidosConcurrent == 2
MaxWords == 2
MaxRemessasShipment == 3

(***************************************************************************)
(* Strings.  Python's `in`, lower() and strip() work on characters, so     *)
(* every string the model uses is given with its characters.               *)
(***************************************************************************)
Chars(s) ==
  CASE s = "pendente" -> <<"p", "e", "n", "d", "e", "n", "t", "e">>
    [] s = "em_preparo" -> <<"e", "m", "_", "p", "r", "e", "p", "a", "r", "o">>
    [] s = "pronto" -> <<"p", "r", "o", "n", "t", "o">>
    [] s = "entregue" -> <<"e", "n", "t", "r", "e", "g", "u", "e">>
    [] s = "cancelado" -> <<"c", "a", "n", "c", "e", "l", "a", "d", "o">>
    [] s = "pago" -> <<"p", "a", "g", "o">>
    [] s = "Entregue" -> <<"E", "n", "t", "r", "e", "g", "u", "e">>
    [] s = "pendente pago" -> <<"p", "e", "n", "d", "e", "n", "t", "e", " ", "p", "a", "g", "o">>
    [] s = "pend" -> <<"p", "e", "n", "d">>
    [] s = "prepar" -> <<"p", "r", "e", "p", "a", "r">>
    [] s = "preparing" -> <<"p", "r", "e", "p", "a", "r", "i", "n", "g">>
    [] s = "pront" -> <<"p", "r", "o", "n", "t">>
    [] s = "ready" -> <<"r", "e", "a", "d", "y">>
    [] s = "entreg" -> <<"e", "n", "t", "r", "e", "g">>
    [] s = "deliv" -> <<"d", "e", "l", "i", "v">>
    [] s = "cancel" -> <<"c", "a", "n", "c", "e", "l">>
    [] s = "pag" -> <<"p", "a", "g">>
    [] s = "paid" -> <<"p", "a", "i", "d">>
    [] s = " pago" -> <<" ", "p", "a", "g", "o">>
    [] s = "Pizzas" -> <<"P", "i", "z", "z", "a", "s">>
    [] s = "Bebidas" -> <<"B", "e", "b", "i", "d", "a", "s">>
    [] s = "bebida" -> <<"b", "e", "b", "i", "d", "a">>
    [] s = "bebidas" -> <<"b", "e", "b", "i", "d", "a", "s">>
    [] s = "vinho" -> <<"v", "i", "n", "h", "o">>
    [] s = "vinhos" -> <<"v", "i", "n", "h", "o", "s">>
    [] s = "drink" -> <<"d", "r", "i", "n", "k">>
    [] s = "drinks" -> <<"d", "r", "i", "n", "k", "s">>
    [] s = "refri" -> <<"r", "e", "f", "r", "i">>
    [] s = "refrigerante" -> <<"r", "e", "f", "r", "i", "g", "e", "r", "a", "n", "t", "e">>
    [] s = "suco" -> <<"s", "u", "c", "o">>
    [] s = "agua" -> <<"a", "g", "u", "a">>
    [] s = "" -> <<>>

LowerChar(c) ==
  CASE c = "E" -> "e"
    [] c = "P" -> "p"
    [] c = "B" -> "b"
    [] OTHER -> c

\* str.lower() on the characters
Lower(cs) == [i \in 1..Len(cs) |-> LowerChar(cs[i])]

RECURSIVE LStrip(_)
LStrip(cs) == IF cs # <<>> /\ Head(cs) = " " THEN LStrip(Tail(cs)) ELSE cs

RECURSIVE RStrip(_)
RStrip(cs) ==
  IF cs # <<>> /\ cs[Len(cs)] = " " THEN RStrip(SubSeq(cs, 1, Len(cs) - 1)) ELSE cs

\* str.strip()
Strip(cs) == RStrip(LStrip(cs))

\* Python `sub in cs`
Contains(cs, sub) ==
  \E i \in 0..(Len(cs) - Len(sub)) : SubSeq(cs, i + 1, i + Len(sub)) = sub

\* Python `cs.endswith(sub)`
EndsWith(cs, sub) ==
  /\ Len(sub) <= Len(cs)
  /\ SubSeq(cs, Len(cs) - Len(sub) + 1, Len(cs)) = sub

(***************************************************************************)
(* Status vocabulary.                                                      *)
(***************************************************************************)
is_finalized_status(s) ==
  LET st == Strip(Lower(Chars(s)))
  IN  st \in {Chars("pago"), Chars("entregue")}

\* map_incoming_status whose fallback is the lowered input itself
map_incoming_unmapped_fallback(raw) ==
  IF raw = <<>> THEN "pendente"
  ELSE LET st == Lower(raw)
       IN  IF Contains(st, Chars("pend")) THEN "pendente"
           ELSE IF \/ Contains(st, Chars("prepar"))
                   \/ Contains(st, Chars("preparing"))
                   \/ Contains(st, Chars("em_preparo")) THEN "em_preparo"
           ELSE IF Contains(st, Chars("pront")) \/ Contains(st, Chars("ready"))
                THEN "pronto"
           ELSE IF Contains(st, Chars("entreg")) \/ Contains(st, Chars("deliv"))
                THEN "entregue"
           ELSE IF Contains(st, Chars("cancel")) THEN "cancelado"
           ELSE IF Contains(st, Chars("pag")) \/ Contains(st, Chars("paid"))
                THEN "pago"
           ELSE "unmapped"

\* map_incoming_status on the characters raw of its argument
map_incoming_chars(raw) ==
  IF raw = <<>> THEN "pendente"
  ELSE LET st == Lower(raw)
       IN  IF Contains(st, Chars("pend")) THEN "pendente"
           ELSE IF \/ Contains(st, Chars("prepar"))
                   \/ Contains(st, Chars("preparing"))
                   \/ Contains(st, Chars("em_preparo")) THEN "em_preparo"
           ELSE IF Contains(st, Chars("pront")) \/ Contains(st, Chars("ready"))
                THEN "pronto"
           ELSE IF Contains(st, Chars("entreg")) \/ Contains(st, Chars("deliv"))
                THEN "entregue"
           ELSE IF Contains(st, Chars("cancel")) THEN "cancelado"
           ELSE IF Contains(st, Chars("pag")) \/ Contains(st, Chars("paid"))
                THEN "pago"
           ELSE "pendente"

map_incoming_status(s) == map_incoming_chars(Chars(s))

\* every status string a row or a payload of the model can hold
StatusUniverse ==
  {"", "pendente", "em_preparo", "pronto", "entregue", "cancelado", "pago",
   "Entregue", "pendente pago", "ready"}

\* the two functions above, tabulated over StatusUniverse
is_finalized == [s \in StatusUniverse |-> is_finalized_status(s)]

mapped_status == [s \in StatusUniverse |-> map_incoming_status(s)]

(***************************************************************************)
(* Product catalogue (produtos table): the rows the items refer to.        *)
(***************************************************************************)
PrecoPizza == 1002
PrecoBebida == 504

Produtos ==
  [p \in {1, 2} |->
     IF p = 1 THEN [preco |-> PrecoPizza, categoria |-> "Pizzas"]
              ELSE [preco |-> PrecoBebida, categoria |-> "Bebidas"]]

\* the product is found by id and its current price is the snapshot
resolve_current_price_for_item(produto_id) == Produtos[produto_id].preco

resolve_categoria_for_item(produto_id) == Produtos[produto_id].categoria

\* the 'água' alternative needs a non-ASCII character; no catalogue category
\* contains it
is_beverage_category(raw) ==
  LET s == Lower(Chars(raw))
  IN  \/ Contains(s, Chars("bebida")) \/ Contains(s, Chars("bebidas"))
      \/ Contains(s, Chars("vinho")) \/ Contains(s, Chars("vinhos"))
      \/ Contains(s, Chars("drink")) \/ Contains(s, Chars("drinks"))
      \/ Contains(s, Chars("refri")) \/ Contains(s, Chars("refrigerante"))
      \/ Contains(s, Chars("suco")) \/ Contains(s, Chars("agua"))

category_key_for_item(produto_id) ==
  IF is_beverage_category(resolve_categoria_for_item(produto_id))
  THEN "bebida" ELSE "pizza"

\* category_key_for_item tabulated over the catalogue
category_key == [p \in DOMAIN Produtos |-> category_key_for_item(p)]

(***************************************************************************)
(* Money.  round(x, 2) on cents: n / d rounded to the nearest integer,     *)
(* ties to even (the catalogue prices never produce a tie).                *)
(***************************************************************************)
RoundDiv(n, d) ==
  LET q == n \div d
      r == n % d
  IN  IF 2 * r < d THEN q
      ELSE IF 2 * r > d THEN q + 1
      ELSE IF q % 2 = 0 THEN q ELSE q + 1

\* valor_total from subtotal and the adicional_10 flag
valor_total_for(subtotal, adicional_10) ==
  IF adicional_10 # 0 THEN RoundDiv(subtotal * 11, 10) ELSE subtotal

\* int() of a quantity given in halves: truncation toward zero
IntOfHalves(h) == IF h >= 0 THEN h \div 2 ELSE -((-h) \div 2)

(***************************************************************************)
(* State: the four tables, the auto-increment counters, the HTTP status of *)
(* the last response, and the totals an order had when it was finalized.   *)
(***************************************************************************)
VARIABLES pedidos, pedido_items, pedido_remessas, pedido_categoria_status,
          nextPedidoId, nextItemId, nextRemessaId, resp, frozen

\* Notification hub (app/utils/pubsub.py): the two registries, what each
\* queue and websocket was given, how each websocket's send behaves, the
\* publish tasks created by the handlers, and the history of the publishes:
\* published is the set of events whose publish has run its queue loop,
\* missed[obs] is that set at the time observer obs registered.
VARIABLES subscribers, websockets, queue_items, ws_sent, ws_mode, tasks,
          nextEvent, nextQueueId, nextWsId, published, missed

hub == <<subscribers, websockets, queue_items, ws_sent, ws_mode, tasks,
         nextEvent, nextQueueId, nextWsId, published, missed>>

\* Requests served by more than one worker: requests[w] is the request worker
\* w is serving, with the order row it loaded; base is the database as it was
\* when the first of the requests now recorded began.
VARIABLES requests, base

conc == <<requests, base>>

\* Status normalization seen alone: incoming is the characters of a status
\* string a caller sent, normalized what map_incoming_status made of it
\* ("" while it has not run).
VARIABLES incoming, normalized

norm == <<incoming, normalized>>

vars == <<pedidos, pedido_items, pedido_remessas, pedido_categoria_status,
          nextPedidoId, nextItemId, nextRemessaId, resp, frozen, hub, conc, norm>>

PedidoIds == 1..MaxPedidos
Categorias == {"pizza", "bebida"}

\* ids of the items of a pedido in the items table its
ItemsOf(its, o) == {i \in DOMAIN its : its[i].pedido_id = o}

RECURSIVE SumOver(_, _)
\* sum of f[x] over the domain of f restricted to S
SumOver(f, S) ==
  IF S = {} THEN 0
  ELSE LET x == CHOOSE y \in S : TRUE
       IN  f[x] + SumOver(f, S \ {x})

\* f without the keys in S
Without(f, S) == [x \in (DOMAIN f) \ S |-> f[x]]

\* f with key k set to v
With(f, k, v) == [x \in (DOMAIN f) \cup {k} |-> IF x = k THEN v ELSE f[x]]

(***************************************************************************)
(* Status recompute engine.                                                *)
(***************************************************************************)
\* is_ready without the 'entregue' alternative
is_ready_without_entregue(s) ==
  \/ Contains(s, Chars("pront"))
  \/ Contains(s, Chars("ready"))

\* is_ready of recompute_order_status_from_items, on a lower-cased status
is_ready(s) ==
  \/ Contains(s, Chars("pront"))
  \/ Contains(s, Chars("ready"))
  \/ Contains(s, Chars("entregue"))

\* is_ready(str(status or '').lower()) tabulated over StatusUniverse
item_is_ready == [s \in StatusUniverse |-> is_ready(Lower(Chars(s)))]

\* the status recompute_order_status_from_items derives for pedido o
order_status_from_items(its, o) ==
  LET items == ItemsOf(its, o)
      any_ready == \E i \in items : item_is_ready[its[i].status]
      all_ready == any_ready /\ \A i \in items : item_is_ready[its[i].status]
  IN  IF items = {} THEN "pendente"
      ELSE IF all_ready THEN "pronto"
      ELSE IF any_ready THEN "em_preparo"
      ELSE "pendente"

\* a recompute that depends on the stored status: an order whose stored
\* status already equals the derived one is put back to 'em_preparo'
recompute_order_status_from_stored(peds, its, o) ==
  LET derived == order_status_from_items(its, o)
  IN  [peds EXCEPT ![o].status = IF @ = derived THEN "em_preparo" ELSE derived]

\* the pedidos table after recompute_order_status_from_items(db, order):
\* the derived status is assigned whatever the current status is
recompute_order_status_from_items(peds, its, o) ==
  [peds EXCEPT ![o].status = order_status_from_items(its, o)]

\* the terms of all_ready and any_preparing in status_for, on a status
status_for_ready(s) ==
  LET st == Lower(Chars(s))
  IN  st # <<>> /\ (Contains(st, Chars("pront")) \/ Contains(st, Chars("ready")))

status_for_preparing(s) ==
  LET st == Lower(Chars(s))
  IN  st # <<>> /\ (Contains(st, Chars("prepar")) \/ Contains(st, Chars("em_preparo")))

category_item_ready == [s \in StatusUniverse |-> status_for_ready(s)]

category_item_preparing == [s \in StatusUniverse |-> status_for_preparing(s)]

\* status_for of compute_and_persist_category_statuses on the statuses of
\* the items items_list; "" stands for None
status_for(its, items_list) ==
  LET all_ready == \A i \in items_list : category_item_ready[its[i].status]
      any_preparing == \E i \in items_list : category_item_preparing[its[i].status]
  IN  IF items_list = {} THEN ""
      ELSE IF all_ready THEN "pronto"
      ELSE IF any_preparing THEN "em_preparo"
      ELSE "pendente"

\* the row of (pedido_id, categoria_key) is created or updated
upsert_category_status(cs, pedido_id, categoria_key, status) ==
  With(cs, <<pedido_id, categoria_key>>, status)

\* the category rows after compute_and_persist_category_statuses(db, o)
compute_and_persist_category_statuses(its, cs, o) ==
  LET items == ItemsOf(its, o)
      beverage_items ==
        {i \in items :
           category_key[its[i].produto_id] = "bebida"}
      pizza_items == items \ beverage_items
      pizza_status == status_for(its, pizza_items)
      beverage_status == status_for(its, beverage_items)
      cs1 == IF pizza_status # ""
             THEN upsert_category_status(cs, o, "pizza", pizza_status) ELSE cs
      cs2 == IF beverage_status # ""
             THEN upsert_category_status(cs1, o, "bebida", beverage_status) ELSE cs1
  IN  IF items = {}
      THEN Without(cs, {<<o, c>> : c \in Categorias})
      ELSE cs2

\* a worker that is serving nothing
NoRequest ==
  [op |-> "none", phase |-> "done", o |-> 0, items_payload |-> <<>>,
   payload |-> [has_status |-> FALSE, status |-> "", has_adicional_10 |-> FALSE,
                adicional_10 |-> 0],
   order |-> [status |-> "", subtotal |-> 0, adicional_10 |-> 0, valor_total |-> 0,
              numero_diario |-> 0, data_pedido |-> 0],
   items_total |-> 0]

(***************************************************************************)
(* Initial state: empty tables.                                            *)
(***************************************************************************)
Init ==
  /\ pedidos = <<>>
  /\ pedido_items = <<>>
  /\ pedido_remessas = <<>>
  /\ pedido_categoria_status = <<>>
  /\ nextPedidoId = 1
  /\ nextItemId = 1
  /\ nextRemessaId = 1
  /\ resp = 0
  /\ frozen = <<>>
  /\ subscribers = <<>>
  /\ websockets = <<>>
  /\ queue_items = <<>>
  /\ ws_sent = <<>>
  /\ ws_mode = <<>>
  /\ tasks = <<>>
  /\ nextEvent = 1
  /\ nextQueueId = 1
  /\ nextWsId = 1
  /\ published = {}
  /\ missed = <<>>
  /\ requests = [w \in 1..MaxWorkers |-> NoRequest]
  /\ incoming = <<>>
  /\ normalized = ""
  /\ base = [pedidos |-> <<>>, pedido_items |-> <<>>, pedido_remessas |-> <<>>,
             pedido_categoria_status |-> <<>>, nextItemId |-> 1, resp |-> 0]

\* a request that is rejected: nothing is persisted
Rejected(code) ==
  /\ resp' = code
  /\ UNCHANGED <<pedidos, pedido_items, pedido_remessas, pedido_categoria_status,
                 nextPedidoId, nextItemId, nextRemessaId>>

\* int(quantidade or 1) of the subtotal loops
QtyOr1(it) == IF it.quantidade = 0 THEN 1 ELSE it.quantidade

\* int(quantidade)
QtyInt(it) == it.quantidade

\* sum of preco * int(quantidade) over the items S of the table its
TotalInt(its, S) ==
  SumOver([i \in S |-> its[i].preco * QtyInt(its[i])], S)

\* sum of preco * int(quantidade or 1) over the items S of the table its
TotalOr1(its, S) ==
  SumOver([i \in S |-> its[i].preco * QtyOr1(its[i])], S)

(***************************************************************************)
(* POST /orders                                                            *)
(***************************************************************************)
\* items with qty < 0.01 are skipped
KeepItem(it) == it.quantity >= 1

\* func.max(numero_diario) over the orders of the day, 0 for None
max_numero_diario(peds) ==
  LET same_day == {q \in DOMAIN peds : peds[q].data_pedido = 1}
  IN  IF same_day = {} THEN 0
      ELSE CHOOSE n \in {peds[q].numero_diario : q \in same_day} :
             \A q \in same_day : peds[q].numero_diario <= n

\* create_order from `p = PedidoModel(...)` on, numero_diario being the
\* number derived from the query made before
create_order_numbered(status_in, items_payload, numero_diario) ==
  LET p == nextPedidoId
      r == nextRemessaId
      kept == SelectSeq(items_payload, KeepItem)
      ids == {nextItemId + k - 1 : k \in 1..Len(kept)}
      payloadOf(i) == kept[i - nextItemId + 1]
      its == [i \in (DOMAIN pedido_items) \cup ids |->
                IF i \in ids
                THEN [pedido_id |-> p,
                      remessa_id |-> r,
                      produto_id |-> payloadOf(i).produto_id,
                      quantidade |-> payloadOf(i).quantity,
                      preco |-> resolve_current_price_for_item(payloadOf(i).produto_id),
                      status |-> "pendente"]
                ELSE pedido_items[i]]
      subtotal == TotalInt(its, ids)
      has_pizza == \E i \in ids : category_key[its[i].produto_id] = "pizza"
      has_beverage == \E i \in ids : category_key[its[i].produto_id] = "bebida"
      cs1 == IF has_pizza
             THEN upsert_category_status(pedido_categoria_status, p, "pizza", "pendente")
             ELSE pedido_categoria_status
      cs2 == IF has_beverage
             THEN upsert_category_status(cs1, p, "bebida", "pendente") ELSE cs1
  IN  /\ nextItemId + Len(kept) - 1 <= MaxItens
      /\ pedidos' = With(pedidos, p,
                         [status |-> mapped_status[status_in],
                          subtotal |-> subtotal,
                          adicional_10 |-> 0,
                          valor_total |-> valor_total_for(subtotal, 0),
                          numero_diario |-> numero_diario,
                          data_pedido |-> 1])
      /\ pedido_items' = its
      /\ pedido_remessas' = With(pedido_remessas, r, [pedido_id |-> p, status |-> "pendente"])
      /\ pedido_categoria_status' = cs2
      /\ nextPedidoId' = p + 1
      /\ nextRemessaId' = r + 1
      /\ nextItemId' = nextItemId + Len(kept)
      /\ resp' = 200

create_order(status_in, items_payload) ==
  create_order_numbered(status_in, items_payload, max_numero_diario(pedidos) + 1)

(***************************************************************************)
(* POST /orders/{order_id}/items                                           *)
(***************************************************************************)
\* int(it.get('quantity') or it.get('qty') or 1), the quantity in halves
AddQty(h) == IF h = 0 THEN 1 ELSE IntOfHalves(h)

add_items_to_order(o, items_payload) ==
  IF o \notin DOMAIN pedidos THEN Rejected(404)
  ELSE IF is_finalized[pedidos[o].status] THEN Rejected(409)
  ELSE
    LET ids == {nextItemId + k - 1 : k \in 1..Len(items_payload)}
        payloadOf(i) == items_payload[i - nextItemId + 1]
        its == [i \in (DOMAIN pedido_items) \cup ids |->
                  IF i \in ids
                  THEN [pedido_id |-> o,
                        remessa_id |-> payloadOf(i).remessa_id,
                        produto_id |-> payloadOf(i).produto_id,
                        quantidade |-> AddQty(payloadOf(i).quantity),
                        preco |-> resolve_current_price_for_item(payloadOf(i).produto_id),
                        status |-> "pendente"]
                  ELSE pedido_items[i]]
        subtotal == pedidos[o].subtotal + TotalInt(its, ids)
        peds1 == [pedidos EXCEPT
                    ![o].subtotal = subtotal,
                    ![o].valor_total = valor_total_for(subtotal, pedidos[o].adicional_10)]
    IN  /\ nextItemId + Len(items_payload) - 1 <= MaxItens
        /\ pedidos' = recompute_order_status_from_items(peds1, its, o)
        /\ pedido_items' = its
        /\ pedido_categoria_status' =
             compute_and_persist_category_statuses(its, pedido_categoria_status, o)
        /\ nextItemId' = nextItemId + Len(items_payload)
        /\ resp' = 200
        /\ UNCHANGED <<pedido_remessas, nextPedidoId, nextRemessaId>>

(***************************************************************************)
(* DELETE /orders/{order_id}/items/{item_id}                               *)
(***************************************************************************)
\* delete_order_item without the finalization guard
delete_order_item_unguarded(o, item_id) ==
  IF o \notin DOMAIN pedidos THEN Rejected(404)
  ELSE IF item_id \notin ItemsOf(pedido_items, o) THEN Rejected(404)
  ELSE
    LET item == pedido_items[item_id]
        subtotal == pedidos[o].subtotal - item.preco * QtyOr1(item)
        peds1 == [pedidos EXCEPT
                    ![o].subtotal = subtotal,
                    ![o].valor_total = valor_total_for(subtotal, pedidos[o].adicional_10)]
        its == Without(pedido_items, {item_id})
    IN  /\ pedidos' = recompute_order_status_from_items(peds1, its, o)
        /\ pedido_items' = its
        /\ pedido_categoria_status' =
             compute_and_persist_category_statuses(its, pedido_categoria_status, o)
        /\ resp' = 200
        /\ UNCHANGED <<pedido_remessas, nextPedidoId, nextItemId, nextRemessaId>>

delete_order_item(o, item_id) ==
  IF o \notin DOMAIN pedidos THEN Rejected(404)
  ELSE IF is_finalized[pedidos[o].status] THEN Rejected(409)
  ELSE IF item_id \notin ItemsOf(pedido_items, o) THEN Rejected(404)
  ELSE
    LET item == pedido_items[item_id]
        subtotal == pedidos[o].subtotal - item.preco * QtyOr1(item)
        peds1 == [pedidos EXCEPT
                    ![o].subtotal = subtotal,
                    ![o].valor_total = valor_total_for(subtotal, pedidos[o].adicional_10)]
        its == Without(pedido_items, {item_id})
    IN  /\ pedidos' = recompute_order_status_from_items(peds1, its, o)
        /\ pedido_items' = its
        /\ pedido_categoria_status' =
             compute_and_persist_category_statuses(its, pedido_categoria_status, o)
        /\ resp' = 200
        /\ UNCHANGED <<pedido_remessas, nextPedidoId, nextItemId, nextRemessaId>>

(***************************************************************************)
(* PATCH /orders/{order_id}/items/{item_id}                                *)
(***************************************************************************)
update_order_item_quantity(o, item_id, payload) ==
  IF o \notin DOMAIN pedidos THEN Rejected(404)
  ELSE IF is_finalized[pedidos[o].status] THEN Rejected(409)
  ELSE IF item_id \notin ItemsOf(pedido_items, o) THEN Rejected(404)
  ELSE
    LET item == pedido_items[item_id]
        it1 == IF payload.has_quantity
               THEN [item EXCEPT !.quantidade = IntOfHalves(payload.quantity)] ELSE item
        it2 == IF payload.has_price THEN [it1 EXCEPT !.preco = payload.price] ELSE it1
        novo_status == payload.status
        not_ready == /\ payload.has_status
                     /\ novo_status = "entregue"
                     /\ item.status # "pronto"
        it3 == IF payload.has_status THEN [it2 EXCEPT !.status = novo_status] ELSE it2
        its == [pedido_items EXCEPT ![item_id] = it3]
        remessa_id == it3.remessa_id
        itens_remessa == {i \in DOMAIN its : its[i].remessa_id = remessa_id}
        remessa_entregue ==
          /\ payload.has_status
          /\ it3.status = "entregue"
          /\ remessa_id # 0
          /\ itens_remessa # {}
          /\ \A i \in itens_remessa : its[i].status = "entregue"
          /\ remessa_id \in DOMAIN pedido_remessas
          /\ pedido_remessas[remessa_id].status # "entregue"
        subtotal == TotalOr1(its, ItemsOf(its, o))
        peds1 == [pedidos EXCEPT
                    ![o].subtotal = subtotal,
                    ![o].valor_total = valor_total_for(subtotal, pedidos[o].adicional_10)]
    IN  IF not_ready THEN Rejected(409)
        ELSE
          /\ pedido_items' = its
          /\ pedido_remessas' =
               IF remessa_entregue
               THEN [pedido_remessas EXCEPT ![remessa_id].status = "entregue"]
               ELSE pedido_remessas
          /\ pedidos' = recompute_order_status_from_items(peds1, its, o)
          /\ resp' = 200
          /\ UNCHANGED <<pedido_categoria_status, nextPedidoId, nextItemId, nextRemessaId>>

(***************************************************************************)
(* PATCH /orders/{order_id}                                                *)
(***************************************************************************)
\* the status update_order assigns for an incoming status
update_order_mapped(status_in) ==
  LET st_raw == Lower(Chars(status_in))
  IN  IF \/ Strip(st_raw) \in {Chars("paid"), Chars("pago")}
         \/ Contains(st_raw, Chars(" pago"))
         \/ EndsWith(st_raw, Chars(" pago"))
      THEN "pago"
      ELSE mapped_status[status_in]

update_mapped == [s \in StatusUniverse |-> update_order_mapped(s)]

\* the flag is stored and valor_total is left as it was
apply_adicional_10_stale_total(order, payload) ==
  IF payload.has_adicional_10 /\ ~is_finalized[order.status]
  THEN [order EXCEPT !.adicional_10 = payload.adicional_10]
  ELSE order

\* one of the two adicional_10 blocks; the 409 it raises on a finalized
\* order is caught by its own `except Exception: pass`
apply_adicional_10(order, payload) ==
  IF payload.has_adicional_10 /\ ~is_finalized[order.status]
  THEN [order EXCEPT
          !.adicional_10 = payload.adicional_10,
          !.valor_total = valor_total_for(order.subtotal, payload.adicional_10)]
  ELSE order

update_order(o, payload) ==
  IF o \notin DOMAIN pedidos THEN Rejected(404)
  ELSE
    LET order == pedidos[o]
        mapped == update_mapped[payload.status]
        \* the 409 raised here is caught by `except Exception: pass`
        refused == is_finalized[order.status] /\ mapped # order.status
        o1 == IF payload.has_status /\ ~refused
              THEN [order EXCEPT !.status = mapped] ELSE order
        o2 == IF payload.has_status THEN apply_adicional_10(o1, payload) ELSE o1
        o3 == apply_adicional_10(o2, payload)
        freeze == /\ payload.has_status
                  /\ is_finalized[mapped_status[payload.status]]
        subtotal == TotalOr1(pedido_items, ItemsOf(pedido_items, o))
        o4 == IF freeze
              THEN [o3 EXCEPT
                      !.subtotal = subtotal,
                      !.valor_total = valor_total_for(subtotal, o3.adicional_10)]
              ELSE o3
    IN  /\ pedidos' = [pedidos EXCEPT ![o] = o4]
        /\ resp' = 200
        /\ UNCHANGED <<pedido_items, pedido_remessas, pedido_categoria_status,
                       nextPedidoId, nextItemId, nextRemessaId>>

(***************************************************************************)
(* POST /orders/{order_id}/remessas                                        *)
(***************************************************************************)
\* the shipment takes every item named, whichever order it belongs to
create_remessa_for_any_item(o, item_ids, status_in) ==
  IF o \notin DOMAIN pedidos THEN Rejected(404)
  ELSE
    LET r == nextRemessaId
        requested_status == IF status_in = "" THEN "pendente" ELSE status_in
        items_to_move == (DOMAIN pedido_items) \cap item_ids
        its == [i \in DOMAIN pedido_items |->
                  IF i \in items_to_move
                  THEN [pedido_items[i] EXCEPT
                          !.remessa_id = r,
                          !.status = mapped_status[requested_status]]
                  ELSE pedido_items[i]]
    IN  /\ pedido_remessas' =
             With(pedido_remessas, r, [pedido_id |-> o, status |-> requested_status])
        /\ pedido_items' = its
        /\ pedidos' = recompute_order_status_from_items(pedidos, its, o)
        /\ pedido_categoria_status' =
             compute_and_persist_category_statuses(its, pedido_categoria_status, o)
        /\ nextRemessaId' = r + 1
        /\ resp' = 200
        /\ UNCHANGED <<nextPedidoId, nextItemId>>

create_remessa_for_order(o, item_ids, status_in) ==
  IF o \notin DOMAIN pedidos THEN Rejected(404)
  ELSE
    LET r == nextRemessaId
        requested_status == IF status_in = "" THEN "pendente" ELSE status_in
        items_to_move == ItemsOf(pedido_items, o) \cap item_ids
        its == [i \in DOMAIN pedido_items |->
                  IF i \in items_to_move
                  THEN [pedido_items[i] EXCEPT
                          !.remessa_id = r,
                          !.status = mapped_status[requested_status]]
                  ELSE pedido_items[i]]
    IN  /\ pedido_remessas' =
             With(pedido_remessas, r, [pedido_id |-> o, status |-> requested_status])
        /\ pedido_items' = its
        /\ pedidos' = recompute_order_status_from_items(pedidos, its, o)
        /\ pedido_categoria_status' =
             compute_and_persist_category_statuses(its, pedido_categoria_status, o)
        /\ nextRemessaId' = r + 1
        /\ resp' = 200
        /\ UNCHANGED <<nextPedidoId, nextItemId>>

(***************************************************************************)
(* PATCH /orders/{order_id}/remessas/{remessa_id}                          *)
(***************************************************************************)
update_remessa_for_order(o, remessa_id, payload) ==
  IF o \notin DOMAIN pedidos THEN Rejected(404)
  ELSE IF \/ remessa_id \notin DOMAIN pedido_remessas
          \/ pedido_remessas[remessa_id].pedido_id # o
       THEN Rejected(404)
  ELSE
    LET item_status == mapped_status[payload.status]
        items_in_remessa ==
          {i \in ItemsOf(pedido_items, o) : pedido_items[i].remessa_id = remessa_id}
        its == [i \in DOMAIN pedido_items |->
                  IF payload.has_status /\ i \in items_in_remessa
                  THEN [pedido_items[i] EXCEPT !.status = item_status]
                  ELSE pedido_items[i]]
    IN  /\ pedido_remessas' =
             IF payload.has_status
             THEN [pedido_remessas EXCEPT ![remessa_id].status = item_status]
             ELSE pedido_remessas
        /\ pedido_items' = its
        /\ pedido_categoria_status' =
             compute_and_persist_category_statuses(its, pedido_categoria_status, o)
        /\ pedidos' = recompute_order_status_from_items(pedidos, its, o)
        /\ resp' = 200
        /\ UNCHANGED <<nextPedidoId, nextItemId, nextRemessaId>>

(***************************************************************************)
(* DELETE /orders/{order_id}: the route registered first serves it         *)
(***************************************************************************)
\* only the order row is deleted
delete_order_keeps_rows(o) ==
  IF o \notin DOMAIN pedidos THEN Rejected(404)
  ELSE
    /\ pedidos' = Without(pedidos, {o})
    /\ resp' = 204
    /\ UNCHANGED <<pedido_remessas, pedido_items, pedido_categoria_status,
                   nextPedidoId, nextItemId, nextRemessaId>>

delete_order(o) ==
  IF o \notin DOMAIN pedidos THEN Rejected(404)
  ELSE
    /\ pedido_remessas' =
         Without(pedido_remessas,
                 {r \in DOMAIN pedido_remessas : pedido_remessas[r].pedido_id = o})
    /\ pedido_items' = Without(pedido_items, ItemsOf(pedido_items, o))
    /\ pedido_categoria_status' =
         Without(pedido_categoria_status, {<<o, c>> : c \in Categorias})
    /\ pedidos' = Without(pedidos, {o})
    /\ resp' = 204
    /\ UNCHANGED <<nextPedidoId, nextItemId, nextRemessaId>>

(***************************************************************************)
(* Requests.  Each handler is an action over the payloads of a given set.  *)
(***************************************************************************)
ProdutoIds == DOMAIN Produtos

SeqsUpTo(S, n) == UNION {[1..k -> S] : k \in 0..n}

\* items of POST /orders (PedidoItem.quantity: int)
CreateItemPayloads(quantities) == [produto_id : ProdutoIds, quantity : quantities]

\* items of POST /orders/{id}/items, the quantity in halves
AddItemPayloads(quantities, remessa_ids) ==
  [produto_id : ProdutoIds, quantity : quantities, remessa_id : remessa_ids]

\* payloads of PATCH /orders/{id}/items/{item_id} with one key
QuantityPayloads(quantities) ==
  {[status |-> "", has_status |-> FALSE, quantity |-> q,
    has_quantity |-> TRUE, has_price |-> FALSE, price |-> 0] : q \in quantities}

PricePayloads(prices) ==
  {[status |-> "", has_status |-> FALSE, quantity |-> 0,
    has_quantity |-> FALSE, has_price |-> TRUE, price |-> c] : c \in prices}

StatusPayloads(statuses) ==
  {[status |-> s, has_status |-> TRUE, quantity |-> 0,
    has_quantity |-> FALSE, has_price |-> FALSE, price |-> 0] : s \in statuses}

\* payloads of PATCH /orders/{id}
OrderStatusPayloads(statuses) ==
  {[adicional_10 |-> 0, status |-> s, has_status |-> TRUE, has_adicional_10 |-> FALSE] :
     s \in statuses}

OrderAdicionalPayloads ==
  {[adicional_10 |-> a, status |-> "", has_status |-> FALSE, has_adicional_10 |-> TRUE] :
     a \in {0, 1}}

OrderStatusAdicionalPayloads(statuses) ==
  {[adicional_10 |-> a, status |-> s, has_status |-> TRUE, has_adicional_10 |-> TRUE] :
     s \in statuses, a \in {0, 1}}

\* payloads of PATCH /orders/{id}/remessas/{remessa_id}
RemessaPayloads(statuses) ==
  {[status |-> s, has_status |-> TRUE] : s \in statuses}
  \cup {[status |-> "", has_status |-> FALSE]}

\* subtotal, valor_total and adicional_10 of an order
Fin(order) ==
  [subtotal |-> order.subtotal,
   valor_total |-> order.valor_total,
   adicional_10 |-> order.adicional_10]

\* frozen records the totals of an order when a request first leaves it finalized
FrozenAfter(peds) ==
  [o \in {q \in DOMAIN peds : q \in DOMAIN frozen \/ is_finalized[peds[q].status]} |->
     IF o \in DOMAIN frozen THEN frozen[o] ELSE Fin(peds[o])]

\* The requests below leave the notification hub out: with no observer
\* registered a publish task changes neither registry and delivers nothing.
CreateOrderIn(statuses, payloads) ==
  /\ nextPedidoId <= MaxPedidos
  /\ nextRemessaId <= MaxRemessas
  /\ \E status_in \in statuses, items_payload \in payloads :
       create_order(status_in, items_payload)
  /\ frozen' = FrozenAfter(pedidos')
  /\ UNCHANGED <<hub, conc, norm>>

AddItemsTo(o, payloads) ==
  /\ \E items_payload \in payloads : add_items_to_order(o, items_payload)
  /\ frozen' = FrozenAfter(pedidos')
  /\ UNCHANGED <<hub, conc, norm>>

DeleteItemOf(o) ==
  /\ \E item_id \in 1..MaxItens : delete_order_item(o, item_id)
  /\ frozen' = FrozenAfter(pedidos')
  /\ UNCHANGED <<hub, conc, norm>>

UpdateItemOf(o, payloads) ==
  /\ \E item_id \in 1..MaxItens, payload \in payloads :
       update_order_item_quantity(o, item_id, payload)
  /\ frozen' = FrozenAfter(pedidos')
  /\ UNCHANGED <<hub, conc, norm>>

UpdateOrderOf(o, payloads) ==
  /\ \E payload \in payloads : update_order(o, payload)
  /\ frozen' = FrozenAfter(pedidos')
  /\ UNCHANGED <<hub, conc, norm>>

CreateRemessaFor(o, statuses) ==
  /\ o \in DOMAIN pedidos => nextRemessaId <= MaxRemessas
  /\ \E item_ids \in SUBSET (1..MaxItens), status_in \in statuses :
       create_remessa_for_order(o, item_ids, status_in)
  /\ frozen' = FrozenAfter(pedidos')
  /\ UNCHANGED <<hub, conc, norm>>

UpdateRemessaFor(o, payloads) ==
  /\ \E remessa_id \in 1..MaxRemessas, payload \in payloads :
       update_remessa_for_order(o, remessa_id, payload)
  /\ frozen' = FrozenAfter(pedidos')
  /\ UNCHANGED <<hub, conc, norm>>

DeleteOrderOf(o) ==
  /\ delete_order(o)
  /\ frozen' = FrozenAfter(pedidos')
  /\ UNCHANGED <<hub, conc, norm>>

(***************************************************************************)
(* Spec: the status engine and the finalization guard.  Every item has     *)
(* quantity 1 and keeps its catalogue price; the statuses vary.            *)
(***************************************************************************)
ItemStatusInputs == {"pendente", "em_preparo", "pronto", "entregue"}

OrderStatusInputs == {"entregue", "pago"}

RemessaStatusInputs == {"pronto", "entregue"}

CreateOrder ==
  CreateOrderIn({""}, SeqsUpTo(CreateItemPayloads({1}), MaxPayloadItems))

AddItems ==
  \E o \in PedidoIds :
    AddItemsTo(o, SeqsUpTo(AddItemPayloads({2}, {0}), MaxPayloadItems))

DeleteItem == \E o \in PedidoIds : DeleteItemOf(o)

UpdateItem == \E o \in PedidoIds : UpdateItemOf(o, StatusPayloads(ItemStatusInputs))

UpdateOrder == \E o \in PedidoIds : UpdateOrderOf(o, OrderStatusPayloads(OrderStatusInputs))

CreateRemessa == \E o \in PedidoIds : CreateRemessaFor(o, RemessaStatusInputs)

UpdateRemessa == \E o \in PedidoIds : UpdateRemessaFor(o, RemessaPayloads(RemessaStatusInputs))

DeleteOrder == \E o \in PedidoIds : DeleteOrderOf(o)

Next ==
  \/ CreateOrder
  \/ AddItems
  \/ DeleteItem
  \/ UpdateItem
  \/ UpdateOrder
  \/ CreateRemessa
  \/ UpdateRemessa
  \/ DeleteOrder

Spec == Init /\ [][Next]_vars

(***************************************************************************)
(* SpecTotals: the totals.  Quantities (0, 0.5, 1, 2), a price change and  *)
(* the adicional_10 flag vary; the orders are finalized by PATCH or        *)
(* created finalized.                                                      *)
(***************************************************************************)
PriceInput == 200

TotalsAddPayloads == SeqsUpTo(AddItemPayloads({0, 1, 2}, {0}), MaxPayloadItems)

TotalsItemPayloads ==
  QuantityPayloads({0, 1, 4}) \cup PricePayloads({PriceInput}) \cup StatusPayloads({"pronto"})

TotalsOrderPayloads ==
  OrderStatusPayloads({"pago", "entregue"})
    \cup OrderAdicionalPayloads
    \cup OrderStatusAdicionalPayloads({"pago"})

TotalsCreateOrder ==
  CreateOrderIn({"", "pago"}, SeqsUpTo(CreateItemPayloads({0, 1, 2}), MaxPayloadItems))

TotalsAddItems == \E o \in PedidoIds : AddItemsTo(o, TotalsAddPayloads)

TotalsDeleteItem == \E o \in PedidoIds : DeleteItemOf(o)

TotalsUpdateItem == \E o \in PedidoIds : UpdateItemOf(o, TotalsItemPayloads)

TotalsUpdateOrder == \E o \in PedidoIds : UpdateOrderOf(o, TotalsOrderPayloads)

TotalsDeleteOrder == \E o \in PedidoIds : DeleteOrderOf(o)

NextTotals ==
  \/ TotalsCreateOrder
  \/ TotalsAddItems
  \/ TotalsDeleteItem
  \/ TotalsUpdateItem
  \/ TotalsUpdateOrder
  \/ TotalsDeleteOrder

SpecTotals == Init /\ [][NextTotals]_vars

(***************************************************************************)
(* Properties.                                                             *)
(***************************************************************************)
Finalized(o) == o \in DOMAIN pedidos /\ is_finalized[pedidos[o].status]

\* the items of pedido o whose category key is c
CategoryItems(its, o, c) == {i \in ItemsOf(its, o) : category_key[its[i].produto_id] = c}

\* C1: once an order's status is 'pago', no later operation on the order
\* gives it another status.
C1_PagoIsTerminal ==
  [][\A o \in DOMAIN pedidos :
       (pedidos[o].status = "pago" /\ o \in DOMAIN pedidos')
         => pedidos'[o].status = "pago"]_vars

\* C2: on an order whose status is 'pago' or 'entregue', create shipment and
\* update shipment answer 409 and change no shipment, item, order or
\* category status.
C2_RemessaRejectedWhenFinalized ==
  [][\A o \in PedidoIds :
       (/\ Finalized(o)
        /\ \/ CreateRemessaFor(o, RemessaStatusInputs)
           \/ UpdateRemessaFor(o, RemessaPayloads(RemessaStatusInputs)))
         => /\ resp' = 409
            /\ UNCHANGED <<pedidos, pedido_items, pedido_remessas,
                           pedido_categoria_status>>]_vars

\* C3: on an order whose status is 'pago' or 'entregue', add items, update
\* item and delete item answer 409 and leave the items and the order
\* (subtotal, total, flag, status) as they were.
C3_ItemOpsRejectedWhenFinalized ==
  [][\A o \in PedidoIds :
       (/\ Finalized(o)
        /\ \/ AddItemsTo(o, TotalsAddPayloads)
           \/ UpdateItemOf(o, TotalsItemPayloads)
           \/ DeleteItemOf(o))
         => /\ resp' = 409
            /\ UNCHANGED <<pedidos, pedido_items>>]_vars

\* an item operation has just been refused on a finalized order that has items
C3_Witness ==
  \E o \in DOMAIN pedidos :
    /\ is_finalized[pedidos[o].status]
    /\ ItemsOf(pedido_items, o) # {}
    /\ resp = 409

\* C4: from the request that finalizes an order on, its subtotal, total and
\* flag keep the values they had when that request completed.
C4_TotalsFrozen ==
  \A o \in DOMAIN frozen : o \in DOMAIN pedidos => Fin(pedidos[o]) = frozen[o]

\* C5: the subtotal of a non-finalized order is the sum of price x quantity
\* over its items.
C5_SubtotalIsSum ==
  \A o \in DOMAIN pedidos :
    ~is_finalized[pedidos[o].status]
      => pedidos[o].subtotal = TotalInt(pedido_items, ItemsOf(pedido_items, o))

\* C6: the total is round(subtotal x 1.1, 2) when the flag is set and
\* round(subtotal, 2) otherwise.
C6_TotalFromSubtotal ==
  \A o \in DOMAIN pedidos :
    pedidos[o].valor_total =
      IF pedidos[o].adicional_10 = 1
      THEN RoundDiv(pedidos[o].subtotal * 11, 10)
      ELSE pedidos[o].subtotal

\* an order with the flag set whose total was rounded
C6_Witness ==
  \E o \in DOMAIN pedidos :
    /\ pedidos[o].adicional_10 = 1
    /\ pedidos[o].subtotal > 0
    /\ (pedidos[o].subtotal * 11) % 10 # 0
    /\ ItemsOf(pedido_items, o) # {}

\* the category status the rule of C7 gives for the items S
C7_Rule(its, S) ==
  IF \A i \in S : its[i].status \in {"pronto", "entregue"} THEN "pronto"
  ELSE IF \E i \in S : its[i].status = "em_preparo" THEN "em_preparo"
  ELSE "pendente"

\* C7: the category status computed for the items of a category is 'pronto'
\* if every item is 'pronto' or 'entregue', 'em_preparo' if not and some item
\* is 'em_preparo', 'pendente' otherwise.
C7_CategoryStatusRule ==
  \A o \in DOMAIN pedidos : \A c \in Categorias :
    LET S == CategoryItems(pedido_items, o, c)
    IN  S # {} => status_for(pedido_items, S) = C7_Rule(pedido_items, S)

\* C8: when update item changes a status and leaves a category with a ready
\* item and a pending item, the category row holds 'em_preparo' afterwards.
C8_MixedCategoryIsPreparing ==
  [][\A o \in PedidoIds : \A c \in Categorias :
       (/\ UpdateItemOf(o, StatusPayloads(ItemStatusInputs))
        /\ resp' = 200
        /\ pedido_items' # pedido_items
        /\ \E i \in CategoryItems(pedido_items', o, c) : pedido_items'[i].status = "pronto"
        /\ \E i \in CategoryItems(pedido_items', o, c) : pedido_items'[i].status = "pendente")
         => /\ <<o, c>> \in DOMAIN pedido_categoria_status'
            /\ pedido_categoria_status'[<<o, c>>] = "em_preparo"]_vars

\* C9: after delete item removes the last item of a category of an order,
\* no category row exists for that order and category.
C9_LastItemRemovesCategoryRow ==
  [][\A o \in PedidoIds : \A c \in Categorias :
       (/\ DeleteItemOf(o)
        /\ resp' = 200
        /\ CategoryItems(pedido_items, o, c) # {}
        /\ CategoryItems(pedido_items', o, c) = {})
         => <<o, c>> \notin DOMAIN pedido_categoria_status']_vars

\* the order status the rule of C10 gives for the items of pedido o
C10_Rule(its, o) ==
  LET S == ItemsOf(its, o)
      ready == {i \in S : its[i].status \in {"pronto", "entregue"}}
  IN  IF S # {} /\ ready = S THEN "pronto"
      ELSE IF ready # {} THEN "em_preparo"
      ELSE "pendente"

\* C10: the order status recomputed from the items is 'pronto' if there is
\* an item and every item is ready or delivered, 'em_preparo' if some but not
\* all are, 'pendente' if none is (also with no items).
C10_OrderStatusRule ==
  \A o \in DOMAIN pedidos :
    order_status_from_items(pedido_items, o) = C10_Rule(pedido_items, o)

\* an order with a delivered item and a pending item, recomputed to 'em_preparo'
C10_Witness ==
  \E o \in DOMAIN pedidos :
    /\ \E i \in ItemsOf(pedido_items, o) : pedido_items[i].status = "entregue"
    /\ \E i \in ItemsOf(pedido_items, o) : pedido_items[i].status = "pendente"
    /\ pedidos[o].status = "em_preparo"

(***************************************************************************)
(* SpecDeliver: item status updates.  The delivered status is requested    *)
(* in two spellings, alone or together with a quantity.                    *)
(***************************************************************************)
\* payloads of PATCH /orders/{id}/items/{item_id} with quantity and status
QuantityStatusPayloads(quantities, statuses) ==
  {[status |-> s, has_status |-> TRUE, quantity |-> q,
    has_quantity |-> TRUE, has_price |-> FALSE, price |-> 0] : q \in quantities, s \in statuses}

\* spellings of the delivered status that map_incoming_status accepts
DeliveredSpellings == {s \in {"entregue", "Entregue"} : mapped_status[s] = "entregue"}

DeliverItemPayloads ==
  StatusPayloads({"pronto"} \cup DeliveredSpellings)
    \cup QuantityStatusPayloads({4}, DeliveredSpellings)

DeliverCreateOrder ==
  CreateOrderIn({""}, SeqsUpTo(CreateItemPayloads({1}), MaxPayloadItems))

DeliverAddItems ==
  \E o \in PedidoIds :
    AddItemsTo(o, SeqsUpTo(AddItemPayloads({2}, {0}), MaxPayloadItems))

DeliverUpdateItem == \E o \in PedidoIds : UpdateItemOf(o, DeliverItemPayloads)

DeliverDeleteItem == \E o \in PedidoIds : DeleteItemOf(o)

NextDeliver ==
  \/ DeliverCreateOrder
  \/ DeliverAddItems
  \/ DeliverUpdateItem
  \/ DeliverDeleteItem

SpecDeliver == Init /\ [][NextDeliver]_vars

\* C11: update item asking for the delivered status, in any accepted
\* spelling, on an item that is not 'pronto' answers 409 and leaves the item
\* and the order's totals as they were.
C11_DeliverRequiresReady ==
  [][\A o \in PedidoIds : \A item_id \in 1..MaxItens : \A payload \in DeliverItemPayloads :
       (/\ item_id \in ItemsOf(pedido_items, o)
        /\ payload.status \in DeliveredSpellings
        /\ pedido_items[item_id].status # "pronto"
        /\ update_order_item_quantity(o, item_id, payload))
         => /\ resp' = 409
            /\ UNCHANGED <<pedidos, pedido_items>>]_vars

\* C12: when update order takes an order from a non-finalized status to
\* 'pago' or 'entregue', the stored subtotal is the sum of price x quantity
\* over the items and the total is derived from it with the flag.
C12_FinalizeRecomputesTotals ==
  [][\A o \in PedidoIds :
       (/\ o \in DOMAIN pedidos
        /\ ~Finalized(o)
        /\ UpdateOrderOf(o, TotalsOrderPayloads)
        /\ is_finalized[pedidos'[o].status])
         => /\ pedidos'[o].subtotal = TotalInt(pedido_items', ItemsOf(pedido_items', o))
            /\ pedidos'[o].valor_total =
                 valor_total_for(pedidos'[o].subtotal, pedidos'[o].adicional_10)]_vars

\* C13: update order asking for another flag value or another status on an
\* order that is 'pago' or 'entregue' answers 409 and leaves the order as it
\* was.
C13_FinalizedOrderUpdateRejected ==
  [][\A o \in PedidoIds : \A payload \in TotalsOrderPayloads :
       (/\ Finalized(o)
        /\ \/ payload.has_adicional_10 /\ payload.adicional_10 # pedidos[o].adicional_10
           \/ payload.has_status /\ update_mapped[payload.status] # pedidos[o].status
        /\ update_order(o, payload))
         => /\ resp' = 409
            /\ UNCHANGED pedidos]_vars

(***************************************************************************)
(* Notification hub: app/utils/pubsub.py and the observers' endpoints of   *)
(* app/routes/kitchen.py.  An event is the number nextEvent had when a     *)
(* handler created its publish task, so events are numbered in the order   *)
(* they were published.  A task is                                         *)
(*   started  the queue loop has run and list(_websockets) was taken,      *)
(*   qs       the queues the event was put into,                           *)
(*   ws_list  the websockets of list(_websockets),                         *)
(*   todo     the websockets of ws_list still to be sent to,               *)
(*   done     publish has returned.                                        *)
(*   behind   see NewTask.                                                 *)
(* A step of a task runs it from where it is suspended through its next    *)
(* `await ws.send_json(event)`; q.put on an unbounded asyncio.Queue never  *)
(* suspends and never fails.                                               *)
(***************************************************************************)
db == <<pedidos, pedido_items, pedido_remessas, pedido_categoria_status,
        nextPedidoId, nextItemId, nextRemessaId, resp, frozen>>

Range(s) == {s[i] : i \in DOMAIN s}

\* list.remove(x) on a list without duplicates
Remove(s, x) == SelectSeq(s, LAMBDA y : y # x)

\* a publish task that has not run yet; behind records the registered
\* websockets whose sends do not complete at the time the handler creates it
NewTask ==
  [started |-> FALSE, done |-> FALSE, qs |-> {}, ws_list |-> <<>>, todo |-> <<>>,
   behind |-> {ws \in Range(websockets) : ws_mode[ws] = "stalled"}]

\* the handler waits for the deliveries: it returns only if no registered
\* websocket stalls
publish_awaited(n) ==
  /\ nextEvent + n - 1 <= MaxEvents
  /\ n > 0 => \A w \in Range(websockets) : ws_mode[w] # "stalled"
  /\ tasks' = [e \in (DOMAIN tasks) \cup (nextEvent..(nextEvent + n - 1)) |->
                 IF e \in DOMAIN tasks THEN tasks[e] ELSE NewTask]
  /\ nextEvent' = nextEvent + n
  /\ UNCHANGED <<subscribers, websockets, queue_items, ws_sent, ws_mode,
                 nextQueueId, nextWsId, published, missed, conc, norm>>

\* asyncio.create_task(publish(event)), n times: the tasks are created and
\* the handler goes on
schedule_publish(n) ==
  /\ nextEvent + n - 1 <= MaxEvents
  /\ tasks' = [e \in (DOMAIN tasks) \cup (nextEvent..(nextEvent + n - 1)) |->
                 IF e \in DOMAIN tasks THEN tasks[e] ELSE NewTask]
  /\ nextEvent' = nextEvent + n
  /\ UNCHANGED <<subscribers, websockets, queue_items, ws_sent, ws_mode,
                 nextQueueId, nextWsId, published, missed, conc, norm>>

\* asyncio.Queue() with the events already published put into it
new_queue_with_backlog ==
  IF published = {} THEN <<>> ELSE <<CHOOSE e \in published : TRUE>>

\* asyncio.Queue()
new_queue == <<>>

register_queue ==
  LET q == nextQueueId
  IN  /\ q <= MaxQueues
      /\ subscribers' = Append(subscribers, q)
      /\ queue_items' = With(queue_items, q, new_queue)
      /\ missed' = With(missed, <<"queue", q>>, published)
      /\ nextQueueId' = q + 1
      /\ UNCHANGED <<websockets, ws_sent, ws_mode, tasks, nextEvent, nextWsId, published>>
      /\ UNCHANGED <<db, conc, norm>>

unregister_queue(q) ==
  /\ q \in Range(subscribers)
  /\ subscribers' = Remove(subscribers, q)
  /\ UNCHANGED <<websockets, queue_items, ws_sent, ws_mode, tasks, nextEvent,
                 nextQueueId, nextWsId, published, missed>>
  /\ UNCHANGED <<db, conc, norm>>

register_ws ==
  LET ws == nextWsId
  IN  /\ ws <= MaxWebsockets
      /\ websockets' = Append(websockets, ws)
      /\ ws_sent' = With(ws_sent, ws, <<>>)
      /\ ws_mode' = With(ws_mode, ws, "open")
      /\ missed' = With(missed, <<"ws", ws>>, published)
      /\ nextWsId' = ws + 1
      /\ UNCHANGED <<subscribers, queue_items, tasks, nextEvent, nextQueueId, published>>
      /\ UNCHANGED <<db, conc, norm>>

unregister_ws(ws) ==
  /\ ws \in Range(websockets)
  /\ websockets' = Remove(websockets, ws)
  /\ UNCHANGED <<subscribers, queue_items, ws_sent, ws_mode, tasks, nextEvent,
                 nextQueueId, nextWsId, published, missed>>
  /\ UNCHANGED <<db, conc, norm>>

\* the connection of ws is lost: from now on send_json raises
WsBreaks(ws) ==
  /\ ws \in DOMAIN ws_mode
  /\ ws_mode[ws] # "broken"
  /\ ws_mode' = [ws_mode EXCEPT ![ws] = "broken"]
  /\ UNCHANGED <<subscribers, websockets, queue_items, ws_sent, tasks, nextEvent,
                 nextQueueId, nextWsId, published, missed>>
  /\ UNCHANGED <<db, conc, norm>>

\* the peer of ws stops reading: from now on send_json does not complete
WsStalls(ws) ==
  /\ ws \in DOMAIN ws_mode
  /\ ws_mode[ws] = "open"
  /\ ws_mode' = [ws_mode EXCEPT ![ws] = "stalled"]
  /\ UNCHANGED <<subscribers, websockets, queue_items, ws_sent, tasks, nextEvent,
                 nextQueueId, nextWsId, published, missed>>
  /\ UNCHANGED <<db, conc, norm>>

\* the task after a send that raised, were the exception to end publish
after_send_failed_aborts(task) ==
  [task EXCEPT !.todo = <<>>, !.done = TRUE]

\* the task after a send that raised: the loop goes on with the next websocket
after_send_failed(task) ==
  [task EXCEPT !.todo = Tail(task.todo), !.done = (Tail(task.todo) = <<>>)]

\* the task after a send that completed
after_send(task) ==
  [task EXCEPT !.todo = Tail(task.todo), !.done = (Tail(task.todo) = <<>>)]

\* one step of the task publish(e)
publish(e) ==
  LET t == tasks[e]
      first == ~t.started
      t0 == IF first
            THEN [t EXCEPT !.started = TRUE, !.qs = Range(subscribers),
                           !.ws_list = websockets, !.todo = websockets]
            ELSE t
  IN  /\ ~t.done
      \* tasks start in the order they were created
      /\ first => \A d \in DOMAIN tasks : d < e => tasks[d].started
      \* a suspended task resumes when its send completes or raises
      /\ ~first => ws_mode[Head(t0.todo)] # "stalled"
      /\ queue_items' =
           IF first
           THEN [q \in DOMAIN queue_items |->
                   IF q \in t0.qs THEN Append(queue_items[q], e) ELSE queue_items[q]]
           ELSE queue_items
      /\ published' = published \cup {e}
      /\ IF t0.todo = <<>>
         THEN /\ tasks' = [tasks EXCEPT ![e] = [t0 EXCEPT !.done = TRUE]]
              /\ UNCHANGED <<ws_sent, websockets>>
         ELSE LET ws == Head(t0.todo)
              IN  CASE ws_mode[ws] = "open" ->
                         /\ ws_sent' = [ws_sent EXCEPT ![ws] = Append(@, e)]
                         /\ tasks' = [tasks EXCEPT ![e] = after_send(t0)]
                         /\ UNCHANGED websockets
                    [] ws_mode[ws] = "broken" ->
                         /\ websockets' = Remove(websockets, ws)
                         /\ tasks' = [tasks EXCEPT ![e] = after_send_failed(t0)]
                         /\ UNCHANGED ws_sent
                    [] ws_mode[ws] = "stalled" ->
                         /\ tasks' = [tasks EXCEPT ![e] = t0]
                         /\ UNCHANGED <<ws_sent, websockets>>
      /\ UNCHANGED <<subscribers, ws_mode, nextEvent, nextQueueId, nextWsId, missed>>
      /\ UNCHANGED <<db, conc, norm>>

(***************************************************************************)
(* The requests with the publish tasks they create.                        *)
(***************************************************************************)
\* one 'order_item added' event per item of the new order
CreateOrderPublishing(statuses, payloads) ==
  \E status_in \in statuses, items_payload \in payloads :
    /\ nextPedidoId <= MaxPedidos
    /\ nextRemessaId <= MaxRemessas
    /\ create_order(status_in, items_payload)
    /\ frozen' = FrozenAfter(pedidos')
    /\ schedule_publish(nextItemId' - nextItemId)

\* one 'order_item added' event per added item
AddItemsPublishing(o, payloads) ==
  \E items_payload \in payloads :
    /\ add_items_to_order(o, items_payload)
    /\ frozen' = FrozenAfter(pedidos')
    /\ schedule_publish(nextItemId' - nextItemId)

\* one 'order_item deleted' event
DeleteItemPublishing(o) ==
  \E item_id \in 1..MaxItens :
    /\ delete_order_item(o, item_id)
    /\ frozen' = FrozenAfter(pedidos')
    /\ schedule_publish(IF resp' = 200 THEN 1 ELSE 0)

\* one 'order_item updated' event
UpdateItemPublishing(o, payloads) ==
  \E item_id \in 1..MaxItens, payload \in payloads :
    /\ update_order_item_quantity(o, item_id, payload)
    /\ frozen' = FrozenAfter(pedidos')
    /\ schedule_publish(IF resp' = 200 THEN 1 ELSE 0)

\* one 'order updated' event
UpdateOrderPublishing(o, payloads) ==
  \E payload \in payloads :
    /\ update_order(o, payload)
    /\ frozen' = FrozenAfter(pedidos')
    /\ schedule_publish(IF resp' = 200 THEN 1 ELSE 0)

\* one 'order_item moved_to_remessa' event per moved item
CreateRemessaPublishing(o, statuses) ==
  \E item_ids \in SUBSET (1..MaxItens), status_in \in statuses :
    /\ o \in DOMAIN pedidos => nextRemessaId <= MaxRemessas
    /\ create_remessa_for_order(o, item_ids, status_in)
    /\ frozen' = FrozenAfter(pedidos')
    /\ schedule_publish(IF resp' = 200
                        THEN Cardinality(ItemsOf(pedido_items, o) \cap item_ids)
                        ELSE 0)

\* one 'remessa updated' event
UpdateRemessaPublishing(o, payloads) ==
  \E remessa_id \in 1..MaxRemessas, payload \in payloads :
    /\ update_remessa_for_order(o, remessa_id, payload)
    /\ frozen' = FrozenAfter(pedidos')
    /\ schedule_publish(IF resp' = 200 THEN 1 ELSE 0)

\* the route that serves DELETE /orders/{order_id} calls notify_orders_update
\* only: no publish
DeleteOrderPublishing(o) ==
  /\ delete_order(o)
  /\ frozen' = FrozenAfter(pedidos')
  /\ schedule_publish(0)

RunPublish == \E e \in DOMAIN tasks : publish(e)

(***************************************************************************)
(* SpecEvents: every mutation with the events it publishes; no observer is *)
(* registered.                                                             *)
(***************************************************************************)
EventsCreateOrder ==
  CreateOrderPublishing({""}, SeqsUpTo(CreateItemPayloads({1}), MaxPayloadItems))

EventsAddItems ==
  \E o \in PedidoIds :
    AddItemsPublishing(o, SeqsUpTo(AddItemPayloads({2}, {0}), MaxPayloadItems))

EventsDeleteItem == \E o \in PedidoIds : DeleteItemPublishing(o)

EventsUpdateItem == \E o \in PedidoIds : UpdateItemPublishing(o, StatusPayloads({"pronto"}))

EventsUpdateOrder == \E o \in PedidoIds : UpdateOrderPublishing(o, OrderStatusPayloads({"pago"}))

EventsCreateRemessa == \E o \in PedidoIds : CreateRemessaPublishing(o, {"pronto"})

EventsUpdateRemessa ==
  \E o \in PedidoIds : UpdateRemessaPublishing(o, RemessaPayloads({"pronto"}))

EventsDeleteOrder == \E o \in PedidoIds : DeleteOrderPublishing(o)

NextEvents ==
  \/ EventsCreateOrder
  \/ EventsAddItems
  \/ EventsDeleteItem
  \/ EventsUpdateItem
  \/ EventsUpdateOrder
  \/ EventsCreateRemessa
  \/ EventsUpdateRemessa
  \/ EventsDeleteOrder
  \/ RunPublish

SpecEvents == Init /\ [][NextEvents]_vars

(***************************************************************************)
(* SpecHub: observers come and go, their connections break or stall, and   *)
(* the publish tasks of create order and update order run interleaved.     *)
(***************************************************************************)
HubCreateOrder == CreateOrderPublishing({""}, {<<>>})

HubUpdateOrder == \E o \in PedidoIds : UpdateOrderPublishing(o, OrderStatusPayloads({"pago"}))

RegisterQueue == register_queue

UnregisterQueue == \E q \in 1..MaxQueues : unregister_queue(q)

RegisterWs == register_ws

UnregisterWs == \E ws \in 1..MaxWebsockets : unregister_ws(ws)

WsBreak == \E ws \in 1..MaxWebsockets : WsBreaks(ws)

WsStall == \E ws \in 1..MaxWebsockets : WsStalls(ws)

NextHub ==
  \/ HubCreateOrder
  \/ HubUpdateOrder
  \/ RegisterQueue
  \/ UnregisterQueue
  \/ RegisterWs
  \/ UnregisterWs
  \/ WsBreak
  \/ WsStall
  \/ RunPublish

SpecHub == Init /\ [][NextHub]_vars

(***************************************************************************)
(* Properties of the notification hub.                                     *)
(***************************************************************************)
Increasing(s) == \A i, j \in DOMAIN s : i < j => s[i] < s[j]

\* C14: every observer, SSE queue or kitchen websocket, receives the events
\* delivered to it in the order they were published, under every
\* interleaving of the publish tasks.
C14_ObserverOrder ==
  /\ \A q \in DOMAIN queue_items : Increasing(queue_items[q])
  /\ \A ws \in DOMAIN ws_sent : Increasing(ws_sent[ws])

Succeeded == resp' \in {200, 204}

\* C16: every successful mutation, create order and add items with an empty
\* item list and delete order included, schedules at least one event.
C16_MutationSchedulesEvent ==
  [][((\/ EventsCreateOrder
       \/ EventsAddItems
       \/ EventsDeleteItem
       \/ EventsUpdateItem
       \/ EventsUpdateOrder
       \/ EventsCreateRemessa
       \/ EventsUpdateRemessa
       \/ EventsDeleteOrder) /\ Succeeded)
        => nextEvent' > nextEvent]_vars

\* the websockets of its list a task has finished with
Attempted(t) == Range(t.ws_list) \ Range(t.todo)

\* C17: a delivery that fails does not end publish: the failing websocket is
\* removed from the registry, and every queue and every other websocket the
\* task has got to has received the event.
C17_FailedDeliveryIsIsolated ==
  \A e \in DOMAIN tasks :
    LET t == tasks[e]
    IN  t.started =>
          /\ \A q \in t.qs : e \in Range(queue_items[q])
          /\ \A ws \in Attempted(t) :
               \/ e \in Range(ws_sent[ws])
               \/ ws_mode[ws] = "broken" /\ ws \notin Range(websockets)
          /\ t.done <=> t.todo = <<>>

\* a finished task whose first websocket failed and was removed, and whose
\* queue and second websocket received the event
C17_Witness ==
  \E e \in DOMAIN tasks :
    LET t == tasks[e]
    IN  /\ t.done
        /\ Len(t.ws_list) = 2
        /\ ws_mode[t.ws_list[1]] = "broken"
        /\ e \notin Range(ws_sent[t.ws_list[1]])
        /\ t.ws_list[1] \notin Range(websockets)
        /\ e \in Range(ws_sent[t.ws_list[2]])
        /\ \E q \in t.qs : e \in Range(queue_items[q])

Received(obs) == IF obs[1] = "queue" THEN Range(queue_items[obs[2]]) ELSE Range(ws_sent[obs[2]])

NoReplay == \A obs \in DOMAIN missed : Received(obs) \cap missed[obs] = {}

\* C19: publish with both registries empty returns, leaves the registries
\* empty and keeps the event nowhere; no observer ever receives an event
\* published before it registered.
C19_NoObserverNoReplay ==
  [][/\ \A e \in DOMAIN tasks :
          (/\ ~tasks[e].started
           /\ subscribers = <<>> /\ websockets = <<>>
           /\ publish(e))
            => /\ tasks'[e].done
               /\ UNCHANGED <<subscribers, websockets, queue_items, ws_sent>>
     /\ NoReplay']_vars

\* an event published to nobody, and a queue and a websocket registered
\* afterwards that have received a later event
C19_Witness ==
  \E e \in DOMAIN tasks :
    /\ tasks[e].done /\ tasks[e].qs = {} /\ tasks[e].ws_list = <<>>
    /\ \E q \in DOMAIN queue_items :
         e \in missed[<<"queue", q>>] /\ queue_items[q] # <<>>
    /\ \E ws \in DOMAIN ws_sent :
         e \in missed[<<"ws", ws>>] /\ ws_sent[ws] # <<>>

(***************************************************************************)
(* SpecShipment: two orders, so that a request for a shipment of one order *)
(* can name an item of the other.                                          *)
(***************************************************************************)
ShipmentPedidoIds == 1..MaxPedidosShipment

ShipmentCreateOrder ==
  /\ nextPedidoId <= MaxPedidosShipment
  /\ nextRemessaId <= MaxRemessasShipment
  /\ \E items_payload \in SeqsUpTo(CreateItemPayloads({1}), MaxPayloadItems) :
       create_order("", items_payload)
  /\ frozen' = FrozenAfter(pedidos')
  /\ UNCHANGED <<hub, conc, norm>>

ShipmentAddItems ==
  \E o \in ShipmentPedidoIds :
    AddItemsTo(o, SeqsUpTo(AddItemPayloads({2}, {0}), MaxPayloadItems))

ShipmentUpdateItem ==
  \E o \in ShipmentPedidoIds : UpdateItemOf(o, StatusPayloads({"entregue"}))

ShipmentCreateRemessa ==
  \E o \in ShipmentPedidoIds :
    /\ o \in DOMAIN pedidos => nextRemessaId <= MaxRemessasShipment
    /\ \E item_ids \in SUBSET (1..MaxItens), status_in \in {"pronto", "ready"} :
         create_remessa_for_order(o, item_ids, status_in)
    /\ frozen' = FrozenAfter(pedidos')
    /\ UNCHANGED <<hub, conc, norm>>

NextShipment ==
  \/ ShipmentCreateOrder
  \/ ShipmentAddItems
  \/ ShipmentUpdateItem
  \/ ShipmentCreateRemessa

SpecShipment == Init /\ [][NextShipment]_vars

\* C20: a shipment created with requested status ready takes the named items
\* of the order: their shipment reference becomes the new shipment and their
\* status 'pronto'; if they are all the items of the order, the order becomes
\* 'pronto'; items of other orders, named or not, and the other orders are
\* left as they were.
C20_ShipmentMovesOwnItems ==
  [][\A o \in ShipmentPedidoIds : \A item_ids \in SUBSET (1..MaxItens) :
     \A status_in \in {"pronto", "ready"} :
       (/\ o \in DOMAIN pedidos
        /\ create_remessa_for_order(o, item_ids, status_in))
         => /\ nextRemessaId \in DOMAIN pedido_remessas'
            /\ pedido_remessas'[nextRemessaId].pedido_id = o
            /\ \A i \in ItemsOf(pedido_items, o) \cap item_ids :
                 /\ pedido_items'[i].remessa_id = nextRemessaId
                 /\ pedido_items'[i].status = "pronto"
            /\ (/\ ItemsOf(pedido_items, o) # {}
                /\ ItemsOf(pedido_items, o) \subseteq item_ids)
                 => pedidos'[o].status = "pronto"
            /\ DOMAIN pedido_items' = DOMAIN pedido_items
            /\ \A i \in (DOMAIN pedido_items) \ ItemsOf(pedido_items, o) :
                 pedido_items'[i] = pedido_items[i]
            /\ \A q \in (DOMAIN pedidos) \ {o} : pedidos'[q] = pedidos[q]]_vars

\* the last shipment holds every item of its order, all 'pronto' like the
\* order, while the item of the other order is still 'pendente' in the
\* shipment it was created in
C20_Witness ==
  \E o \in DOMAIN pedidos, i, j \in DOMAIN pedido_items :
    /\ resp = 200
    /\ nextRemessaId - 1 \in DOMAIN pedido_remessas
    /\ pedido_remessas[nextRemessaId - 1].pedido_id = o
    /\ pedido_remessas[nextRemessaId - 1].status \in {"pronto", "ready"}
    /\ pedido_items[i].pedido_id = o
    /\ \A k \in ItemsOf(pedido_items, o) :
         /\ pedido_items[k].remessa_id = nextRemessaId - 1
         /\ pedido_items[k].status = "pronto"
    /\ pedidos[o].status = "pronto"
    /\ pedido_items[j].pedido_id # o
    /\ pedido_items[j].status = "pendente"
    /\ pedido_items[j].remessa_id # nextRemessaId - 1

(***************************************************************************)
(* SpecConcurrent: requests on the same order served by more than one      *)
(* worker.  A request is two steps, as its database session sees it: the   *)
(* load of the order row with the checks made on it, and the commit of     *)
(* what the handler computed from the loaded row, followed by the          *)
(* recomputations that read the database again.  No handler takes a lock,  *)
(* a row lock or a version check between the two.                          *)
(***************************************************************************)
Workers == 1..MaxWorkers

\* the database as a value
CurrentDb ==
  [pedidos |-> pedidos, pedido_items |-> pedido_items,
   pedido_remessas |-> pedido_remessas,
   pedido_categoria_status |-> pedido_categoria_status,
   nextItemId |-> nextItemId, resp |-> resp]

\* the column after the flush: an attribute assigned the value it was loaded
\* with is not part of the UPDATE
Flushed(current, loaded, assigned) == IF assigned = loaded THEN current ELSE assigned

\* add_items_to_order from `order.items.append` on, `order` being the row as
\* it was loaded; the flush fails when the row is gone
add_items_commit(d, o, items_payload, order) ==
  IF o \notin DOMAIN d.pedidos THEN [d EXCEPT !.resp = 500]
  ELSE
    LET ids == {d.nextItemId + k - 1 : k \in 1..Len(items_payload)}
        payloadOf(i) == items_payload[i - d.nextItemId + 1]
        its == [i \in (DOMAIN d.pedido_items) \cup ids |->
                  IF i \in ids
                  THEN [pedido_id |-> o,
                        remessa_id |-> payloadOf(i).remessa_id,
                        produto_id |-> payloadOf(i).produto_id,
                        quantidade |-> AddQty(payloadOf(i).quantity),
                        preco |-> resolve_current_price_for_item(payloadOf(i).produto_id),
                        status |-> "pendente"]
                  ELSE d.pedido_items[i]]
        subtotal == order.subtotal + TotalInt(its, ids)
        valor_total == valor_total_for(subtotal, order.adicional_10)
        cur == d.pedidos[o]
        peds1 == [d.pedidos EXCEPT
                    ![o].subtotal = Flushed(cur.subtotal, order.subtotal, subtotal),
                    ![o].valor_total = Flushed(cur.valor_total, order.valor_total, valor_total)]
    IN  [d EXCEPT
           !.pedidos = recompute_order_status_from_items(peds1, its, o),
           !.pedido_items = its,
           !.pedido_categoria_status =
              compute_and_persist_category_statuses(its, d.pedido_categoria_status, o),
           !.nextItemId = d.nextItemId + Len(items_payload),
           !.resp = 200]

\* the handler run alone on the database d
add_items_serial(d, o, items_payload) ==
  IF o \notin DOMAIN d.pedidos THEN [d EXCEPT !.resp = 404]
  ELSE IF is_finalized[d.pedidos[o].status] THEN [d EXCEPT !.resp = 409]
  ELSE add_items_commit(d, o, items_payload, d.pedidos[o])

\* update_order from its first assignment on, `order` being the row and
\* items_total the int(quantidade or 1) total of the items as they were loaded
update_order_commit(d, o, payload, order, items_total) ==
  IF o \notin DOMAIN d.pedidos THEN [d EXCEPT !.resp = 500]
  ELSE
    LET mapped == update_mapped[payload.status]
        refused == is_finalized[order.status] /\ mapped # order.status
        o1 == IF payload.has_status /\ ~refused
              THEN [order EXCEPT !.status = mapped] ELSE order
        o2 == IF payload.has_status THEN apply_adicional_10(o1, payload) ELSE o1
        o3 == apply_adicional_10(o2, payload)
        freeze == /\ payload.has_status
                  /\ is_finalized[mapped_status[payload.status]]
        o4 == IF freeze
              THEN [o3 EXCEPT
                      !.subtotal = items_total,
                      !.valor_total = valor_total_for(items_total, o3.adicional_10)]
              ELSE o3
        cur == d.pedidos[o]
        row == [f \in DOMAIN cur |-> Flushed(cur[f], order[f], o4[f])]
    IN  [d EXCEPT !.pedidos = [d.pedidos EXCEPT ![o] = row], !.resp = 200]

update_order_serial(d, o, payload) ==
  IF o \notin DOMAIN d.pedidos THEN [d EXCEPT !.resp = 404]
  ELSE update_order_commit(d, o, payload, d.pedidos[o],
                           TotalOr1(d.pedido_items, ItemsOf(d.pedido_items, o)))

\* delete_order is one transaction
delete_order_serial(d, o) ==
  IF o \notin DOMAIN d.pedidos THEN [d EXCEPT !.resp = 404]
  ELSE [d EXCEPT
          !.pedido_remessas =
             Without(d.pedido_remessas,
                     {r \in DOMAIN d.pedido_remessas : d.pedido_remessas[r].pedido_id = o}),
          !.pedido_items = Without(d.pedido_items, ItemsOf(d.pedido_items, o)),
          !.pedido_categoria_status =
             Without(d.pedido_categoria_status, {<<o, c>> : c \in Categorias}),
          !.pedidos = Without(d.pedidos, {o}),
          !.resp = 204]

\* the request r run alone on the database d
Serial(d, r) ==
  CASE r.op = "add" -> add_items_serial(d, r.o, r.items_payload)
    [] r.op = "update" -> update_order_serial(d, r.o, r.payload)
    [] r.op = "delete" -> delete_order_serial(d, r.o)
    [] OTHER -> d

\* the session commits d
Install(d) ==
  /\ pedidos' = d.pedidos
  /\ pedido_items' = d.pedido_items
  /\ pedido_remessas' = d.pedido_remessas
  /\ pedido_categoria_status' = d.pedido_categoria_status
  /\ nextItemId' = d.nextItemId
  /\ resp' = d.resp
  /\ frozen' = FrozenAfter(pedidos')
  /\ UNCHANGED <<nextPedidoId, nextRemessaId, hub, norm>>

InFlight == {w \in Workers : requests[w].phase = "loaded"}

\* worker w takes the request r; when no request is in flight the finished
\* ones are forgotten and base becomes the database of now
Begin(w, r) ==
  LET fresh == InFlight = {}
  IN  /\ fresh \/ requests[w].op = "none"
      /\ requests' = [v \in Workers |->
                        IF v = w THEN r ELSE IF fresh THEN NoRequest ELSE requests[v]]
      /\ base' = IF fresh THEN CurrentDb ELSE base

\* the items the requests in flight are going to insert
PendingItems ==
  SumOver([w \in Workers |-> Len(requests[w].items_payload)], InFlight)

add_items_load(w, o, items_payload) ==
  LET r == [NoRequest EXCEPT !.op = "add", !.o = o, !.items_payload = items_payload]
  IN  IF o \notin DOMAIN pedidos
      THEN Begin(w, r) /\ Install([CurrentDb EXCEPT !.resp = 404])
      ELSE IF is_finalized[pedidos[o].status]
      THEN Begin(w, r) /\ Install([CurrentDb EXCEPT !.resp = 409])
      ELSE /\ nextItemId + PendingItems + Len(items_payload) - 1 <= MaxItens
           /\ Begin(w, [r EXCEPT !.phase = "loaded", !.order = pedidos[o]])
           /\ Install(CurrentDb)

update_order_load(w, o, payload) ==
  LET r == [NoRequest EXCEPT !.op = "update", !.o = o, !.payload = payload]
  IN  IF o \notin DOMAIN pedidos
      THEN Begin(w, r) /\ Install([CurrentDb EXCEPT !.resp = 404])
      ELSE /\ Begin(w, [r EXCEPT
                          !.phase = "loaded",
                          !.order = pedidos[o],
                          !.items_total =
                             TotalOr1(pedido_items, ItemsOf(pedido_items, o))])
           /\ Install(CurrentDb)

request_commit(w) ==
  LET r == requests[w]
  IN  /\ r.phase = "loaded"
      /\ Install(IF r.op = "add"
                 THEN add_items_commit(CurrentDb, r.o, r.items_payload, r.order)
                 ELSE update_order_commit(CurrentDb, r.o, r.payload, r.order, r.items_total))
      /\ requests' = [requests EXCEPT ![w].phase = "done"]
      /\ UNCHANGED base

ConcurrentAddPayloads ==
  {<<it>> : it \in {p \in AddItemPayloads({2}, {0}) : p.produto_id = 1}}

ConcurrentCreateOrder ==
  /\ InFlight = {}
  /\ nextPedidoId <= MaxPedidos
  /\ nextRemessaId <= MaxRemessas
  /\ \E items_payload \in SeqsUpTo(CreateItemPayloads({1}), MaxPayloadItems) :
       create_order("", items_payload)
  /\ frozen' = FrozenAfter(pedidos')
  /\ requests' = [w \in Workers |-> NoRequest]
  /\ base' = [pedidos |-> pedidos', pedido_items |-> pedido_items',
              pedido_remessas |-> pedido_remessas',
              pedido_categoria_status |-> pedido_categoria_status',
              nextItemId |-> nextItemId', resp |-> resp']
  /\ UNCHANGED <<hub, norm>>

AddItemsLoad ==
  \E w \in Workers, o \in PedidoIds, items_payload \in ConcurrentAddPayloads :
    add_items_load(w, o, items_payload)

UpdateOrderLoad ==
  \E w \in Workers, o \in PedidoIds, payload \in OrderStatusPayloads({"pago"}) :
    update_order_load(w, o, payload)

RequestCommit == \E w \in Workers : request_commit(w)

ConcurrentDeleteOrder ==
  \E w \in Workers, o \in PedidoIds :
    /\ Begin(w, [NoRequest EXCEPT !.op = "delete", !.o = o])
    /\ Install(delete_order_serial(CurrentDb, o))

NextConcurrent ==
  \/ ConcurrentCreateOrder
  \/ AddItemsLoad
  \/ UpdateOrderLoad
  \/ RequestCommit
  \/ ConcurrentDeleteOrder

SpecConcurrent == Init /\ [][NextConcurrent]_vars

\* what a caller can compare of two databases: per order its status, its
\* totals and how many items of each content it has
Content(it) == <<it.produto_id, it.quantidade, it.preco, it.status>>

Outcome(d) ==
  [o \in DOMAIN d.pedidos |->
     LET items == ItemsOf(d.pedido_items, o)
     IN  [status |-> d.pedidos[o].status,
          subtotal |-> d.pedidos[o].subtotal,
          valor_total |-> d.pedidos[o].valor_total,
          items |-> [c \in {Content(d.pedido_items[i]) : i \in items} |->
                       Cardinality({i \in items : Content(d.pedido_items[i]) = c})]]]

RECURSIVE SerialRun(_, _)
\* the recorded requests run alone, one after the other in the order ws
SerialRun(d, ws) ==
  IF ws = <<>> THEN d ELSE SerialRun(Serial(d, requests[Head(ws)]), Tail(ws))

SerialOrders ==
  {ws \in [1..MaxWorkers -> Workers] : \A i, j \in 1..MaxWorkers : ws[i] = ws[j] => i = j}

\* C15: when the requests that ran concurrently on an order have all
\* returned, the items, subtotal, total and status are those of the same
\* requests run one after the other in some order.
C15_ConcurrentMutationsSerializable ==
  InFlight = {} =>
    \E ws \in SerialOrders : Outcome(CurrentDb) = Outcome(SerialRun(base, ws))

(***************************************************************************)
(* Properties of the stored item values.                                   *)
(***************************************************************************)
\* C21: every stored item status is one of the four canonical item values,
\* whatever status strings the callers send.
C21_ItemStatusCanonical ==
  \A i \in DOMAIN pedido_items :
    pedido_items[i].status \in {"pendente", "em_preparo", "pronto", "entregue"}

(***************************************************************************)
(* SpecQuantity: the requests that carry a quantity, with negative, zero   *)
(* and positive quantities (in halves).                                    *)
(***************************************************************************)
QuantityInputs == {-2, 0, 2}

QuantityCreateOrder ==
  CreateOrderIn({""}, SeqsUpTo(CreateItemPayloads(QuantityInputs), MaxPayloadItems))

QuantityAddItems ==
  \E o \in PedidoIds :
    AddItemsTo(o, SeqsUpTo(AddItemPayloads(QuantityInputs, {0}), MaxPayloadItems))

QuantityUpdateItem == \E o \in PedidoIds : UpdateItemOf(o, QuantityPayloads(QuantityInputs))

QuantityDeleteItem == \E o \in PedidoIds : DeleteItemOf(o)

NextQuantity ==
  \/ QuantityCreateOrder
  \/ QuantityAddItems
  \/ QuantityUpdateItem
  \/ QuantityDeleteItem

SpecQuantity == Init /\ [][NextQuantity]_vars

\* C22: every stored item quantity is non-negative, whatever quantities the
\* callers send to create order, add items or update item.
C22_QuantityNonNegative ==
  \A i \in DOMAIN pedido_items : pedido_items[i].quantidade >= 0

(***************************************************************************)
(* SpecNormalize: map_incoming_status on status strings made of up to      *)
(* MaxWords words: the canonical tokens, other spellings the function      *)
(* knows, a word it does not know, upper case and blanks.                  *)
(***************************************************************************)
CanonicalTokens == {"pendente", "em_preparo", "pronto", "entregue", "cancelado", "pago"}

StatusWords ==
  {Chars(w) : w \in CanonicalTokens \cup
                    {"Entregue", "ready", "preparing", "deliv", "paid", " pago", "vinho"}}

RECURSIVE StatusTexts(_)
\* the concatenations of at most n words
StatusTexts(n) ==
  IF n = 0 THEN {<<>>}
  ELSE StatusTexts(n - 1) \cup {t \o w : t \in StatusTexts(n - 1), w \in StatusWords}

\* a request carrying a status string arrives
ReceiveStatus ==
  /\ incoming' \in StatusTexts(MaxWords)
  /\ normalized' = ""
  /\ UNCHANGED <<db, hub, conc>>

\* the handler normalizes it
NormalizeStatus ==
  /\ normalized = ""
  /\ normalized' = map_incoming_chars(incoming)
  /\ UNCHANGED <<incoming, db, hub, conc>>

NextNormalize ==
  \/ ReceiveStatus
  \/ NormalizeStatus

SpecNormalize == Init /\ [][NextNormalize]_vars

\* the function knows none of the tokens it looks for in the text
Unrecognized(raw) ==
  \A t \in {"pend", "prepar", "preparing", "em_preparo", "pront", "ready",
            "entreg", "deliv", "cancel", "pag", "paid"} :
    ~Contains(Lower(raw), Chars(t))

\* C23: map_incoming_status returns, for every input, one of the six
\* canonical tokens; 'pendente' for an empty or unrecognized input; and each
\* canonical token for itself.
C23_NormalizationTotal ==
  normalized # "" =>
    /\ normalized \in CanonicalTokens
    /\ (incoming = <<>> \/ Unrecognized(incoming)) => normalized = "pendente"
    /\ \A c \in CanonicalTokens : incoming = Chars(c) => normalized = c

\* a text that is not empty and holds no token the function knows has been
\* normalized to 'pendente'
C23_Witness ==
  /\ normalized = "pendente"
  /\ incoming # <<>>
  /\ Unrecognized(incoming)

(***************************************************************************)
(* Ownership of the rows.                                                  *)
(***************************************************************************)
\* the rows of the three owned tables that reference the order o
RowsOf(o) ==
  [items |-> ItemsOf(pedido_items, o),
   remessas |-> {r \in DOMAIN pedido_remessas : pedido_remessas[r].pedido_id = o},
   categorias |-> {k \in DOMAIN pedido_categoria_status : k[1] = o}]

NoRows == [items |-> {}, remessas |-> {}, categorias |-> {}]

ReferencesExist ==
  /\ \A i \in DOMAIN pedido_items : pedido_items[i].pedido_id \in DOMAIN pedidos
  /\ \A r \in DOMAIN pedido_remessas : pedido_remessas[r].pedido_id \in DOMAIN pedidos
  /\ \A k \in DOMAIN pedido_categoria_status : k[1] \in DOMAIN pedidos

\* C24: a delete order that succeeds leaves neither the order nor any item,
\* shipment or category-status row that references it; and every item,
\* shipment and category-status row always references an existing order.
C24_DeleteRemovesOwnedRows ==
  [][/\ \A o \in PedidoIds :
          (o \in DOMAIN pedidos /\ delete_order(o))
            => /\ resp' = 204
               /\ o \notin DOMAIN pedidos'
               /\ RowsOf(o)' = NoRows
     /\ ReferencesExist']_vars

\* an order has been deleted after items and shipments were created for it,
\* and no row is left
C24_Witness ==
  /\ resp = 204
  /\ pedidos = <<>>
  /\ nextItemId > MaxItens
  /\ nextRemessaId > MaxRemessas
  /\ \A o \in PedidoIds : RowsOf(o) = NoRows

(***************************************************************************)
(* SpecSequence: create order requests served by more than one worker.     *)
(* The request queries max(numero_diario) of the day, builds the order     *)
(* with that number plus one and commits it; the query and the insert run  *)
(* in one transaction of the default isolation, with no lock and no unique *)
(* constraint on (data_pedido, numero_diario).                             *)
(***************************************************************************)
create_order_load(w, items_payload) ==
  /\ requests[w].op = "none"
  /\ nextPedidoId + Cardinality(InFlight) <= MaxPedidosConcurrent
  /\ nextRemessaId + Cardinality(InFlight) <= MaxRemessas
  /\ nextItemId + PendingItems + Len(items_payload) - 1 <= MaxItens
  /\ requests' =
       [requests EXCEPT ![w] =
          [NoRequest EXCEPT
             !.op = "create", !.phase = "loaded", !.items_payload = items_payload,
             !.order = [@ EXCEPT !.numero_diario = max_numero_diario(pedidos) + 1]]]
  /\ UNCHANGED <<db, hub, base, norm>>

create_order_commit(w) ==
  /\ requests[w].op = "create"
  /\ requests[w].phase = "loaded"
  /\ create_order_numbered("", requests[w].items_payload, requests[w].order.numero_diario)
  /\ frozen' = FrozenAfter(pedidos')
  /\ requests' = [requests EXCEPT ![w] = NoRequest]
  /\ UNCHANGED <<hub, base, norm>>

SequenceLoad ==
  \E w \in Workers,
     items_payload \in SeqsUpTo(CreateItemPayloads({1}), MaxPayloadItems) :
    create_order_load(w, items_payload)

SequenceCommit == \E w \in Workers : create_order_commit(w)

SequenceDeleteOrder ==
  \E o \in 1..MaxPedidosConcurrent :
    /\ delete_order(o)
    /\ frozen' = FrozenAfter(pedidos')
    /\ UNCHANGED <<hub, conc, norm>>

NextSequence ==
  \/ SequenceLoad
  \/ SequenceCommit
  \/ SequenceDeleteOrder

SpecSequence == Init /\ [][NextSequence]_vars

\* C25: no two existing orders of the same business date have the same daily
\* sequence number, however the create order requests interleave.
C25_DailyNumbersUnique ==
  \A p, q \in DOMAIN pedidos :
    (p # q /\ pedidos[p].data_pedido = pedidos[q].data_pedido)
      => pedidos[p].numero_diario # pedidos[q].numero_diario

FrameCreateOrder ==
  /\ nextPedidoId <= MaxPedidosShipment
  /\ nextRemessaId <= MaxRemessasShipment
  /\ \E items_payload \in SeqsUpTo(CreateItemPayloads({1}), MaxPayloadItems) :
       create_order("", items_payload)
  /\ frozen' = FrozenAfter(pedidos')
  /\ UNCHANGED <<hub, conc, norm>>

FrameAddPayloads == SeqsUpTo(AddItemPayloads({2}, 0..MaxRemessas), MaxPayloadItems)

FrameUpdatePayloads == StatusPayloads({"pronto", "entregue"})

FrameAddItems == \E o \in ShipmentPedidoIds : AddItemsTo(o, FrameAddPayloads)

FrameUpdateItem == \E o \in ShipmentPedidoIds : UpdateItemOf(o, FrameUpdatePayloads)

NextFrame ==
  \/ FrameCreateOrder
  \/ FrameAddItems
  \/ FrameUpdateItem

SpecFrame == Init /\ [][NextFrame]_vars

\* everything that belongs to order a: its row, its items, its shipments and
\* its category rows
OwnedBy(a) ==
  [order |-> pedidos[a],
   items |-> [i \in ItemsOf(pedido_items, a) |-> pedido_items[i]],
   remessas |-> [r \in {x \in DOMAIN pedido_remessas : pedido_remessas[x].pedido_id = a}
                   |-> pedido_remessas[r]],
   categorias |-> [k \in {x \in DOMAIN pedido_categoria_status : x[1] = a}
                     |-> pedido_categoria_status[k]]]

\* C27: add items and update item addressed to order o leave the row, the
\* items, the shipments and the category rows of every other order as they
\* were, whatever the payload.
C27_OtherOrdersUntouched ==
  [][\A o \in ShipmentPedidoIds :
       (\/ \E items_payload \in FrameAddPayloads : add_items_to_order(o, items_payload)
        \/ \E item_id \in 1..MaxItens, payload \in FrameUpdatePayloads :
             update_order_item_quantity(o, item_id, payload))
         => \A a \in (DOMAIN pedidos) \ {o} : OwnedBy(a)' = OwnedBy(a)]_vars

(***************************************************************************)
(* SpecRejected: the requests of SpecEvents with update order asking a     *)
(* paid order for another status.                                          *)
(***************************************************************************)
RejectedUpdatePayloads == OrderStatusPayloads({"pago", "pendente"})

RejectedUpdateOrder == \E o \in PedidoIds : UpdateOrderPublishing(o, RejectedUpdatePayloads)

NextRejected ==
  \/ EventsCreateOrder
  \/ EventsAddItems
  \/ EventsDeleteItem
  \/ EventsUpdateItem
  \/ RejectedUpdateOrder
  \/ RunPublish

SpecRejected == Init /\ [][NextRejected]_vars

\* the condition under which update_order raises its 409 on the status
update_order_conflict(o, payload) ==
  /\ o \in DOMAIN pedidos
  /\ payload.has_status
  /\ is_finalized[pedidos[o].status]
  /\ update_mapped[payload.status] # pedidos[o].status

C29_DeliveredOnlyAfterReady ==
  [][\A i \in (DOMAIN pedido_items) \cap (DOMAIN pedido_items') :
       (pedido_items'[i].status = "entregue" /\ pedido_items[i].status # "entregue")
         => pedido_items[i].status = "pronto"]_vars

(***************************************************************************)
(* SpecStall: observers register, a websocket peer may stop reading for    *)
(* good (its send never completes and never raises), and update order      *)
(* publishes.  The event loop runs every task that is ready: a publish     *)
(* task that can take its next step eventually takes it.  A task suspended *)
(* in the send to a stalled websocket is not ready.                        *)
(***************************************************************************)
NextStall ==
  \/ HubCreateOrder
  \/ HubUpdateOrder
  \/ RegisterQueue
  \/ RegisterWs
  \/ WsStall
  \/ RunPublish

SpecStall ==
  /\ Init
  /\ [][NextStall]_vars
  /\ \A e \in 1..MaxEvents : WF_vars(e \in DOMAIN tasks /\ publish(e))

\* C30: once publish has started for an event, every queue and every
\* websocket that was registered then and whose own sends complete
\* eventually receives the event, even if the send to another websocket
\* never completes.
C30_StalledObserverIsolated ==
  \A e \in 1..MaxEvents :
    /\ \A q \in 1..MaxQueues :
         (e \in DOMAIN tasks /\ tasks[e].started /\ q \in tasks[e].qs)
           ~> (q \in DOMAIN queue_items /\ e \in Range(queue_items[q]))
    /\ \A ws \in 1..MaxWebsockets :
         (/\ e \in DOMAIN tasks
          /\ tasks[e].started
          /\ ws \in Range(tasks[e].ws_list)
          /\ ws_mode[ws] = "open")
           ~> (ws \in DOMAIN ws_mode /\ (ws_mode[ws] # "open" \/ e \in Range(ws_sent[ws])))

====
